---- MODULE Spec2Model ----
(***************************************************************************)
(* Cognitive Mirrors: the browser client (js/api/cognitive.js: the         *)
(* CognitiveAPI client and the CognitiveApp shell) and the Socket.IO relay *)
(* of backend/server.js, as state machines.                                *)
(*                                                                         *)
(* Three specifications share the variables:                               *)
(*   SpecApi    every CognitiveAPI operation applied to every response     *)
(*              shape of a bounded set (the operations are functions of    *)
(*              the response fetch() delivers);                            *)
(*   SpecApp    CognitiveApp: init runs, startPuzzle, localStorage, and    *)
(*              the session routes of the backend;                         *)
(*   SpecRelay  the connection / disconnect / error handlers of            *)
(*              CognitiveServer.initializeSocketIO.                        *)
(***************************************************************************)
EXTENDS Integers, Sequences, FiniteSets, TLC

VARIABLES
    call,           \* the last CognitiveAPI call: operation, response, outcome
    pc,             \* per invocation (0: DOMContentLoaded, n>0: n-th click): position
    steps,          \* per invocation: the init steps started so far, in order
    stepsOk,        \* per invocation: the init steps that completed successfully
    initResult,     \* per invocation: what its init() call returned
    currentSession, \* CognitiveApp.currentSession
    userProfile,    \* CognitiveApp.userProfile
    isInitialized,  \* CognitiveApp.isInitialized
    navCreated,     \* the startPuzzle buttons exist (createNavigation ran)
    errorOverlays,  \* per invocation: error overlays its init() appended
    tracked,        \* tracker.js trackEvent calls: set of <<event type, invocation>>
    navigations,    \* invocations whose startPuzzle reached navigateTo('puzzle')
    localStorage,   \* window.localStorage
    lastLoad,       \* the last loadUserProfile call: what it read, did and returned
    created,        \* the default profile the last creating loadUserProfile persisted
    serverSessions, \* backend session store: session id -> "active" | "completed"
    reloads,        \* page loads so far
    sockState,      \* per socket: "connecting" | "open" | "closed"
    connectCalls,   \* per socket: socketManager.handleConnection calls
    disconnectCalls,\* per socket: socketManager.handleDisconnect calls
    errorLogs,      \* per socket: logError calls of the 'error' handler
    closeReason,    \* per socket: the reason its 'disconnect' event carried
    registry,       \* socketManager's connection map (its key set)
    healthResp,     \* per invocation: the response its checkHealth was given
    trackCalls,     \* CognitiveAPI.trackEvent calls made, in call order
    sent,           \* the requests fetch() put on the wire, in issue order
    inflight,       \* trackEvent calls awaiting their response
    dropped,        \* trackEvent calls that settled with null
    srvState,       \* the server process: "running" | "exited"
    exitCode,       \* its exit code (-1 while it runs)
    exitCause,      \* the statement that called process.exit
    dbState,        \* mongoose.connection: "connecting" | "connected" | "closed"
    dbResumed,      \* initializeDatabase has resumed after `await mongoose.connect`
    openListener,   \* the once('open') listener is registered and has not run
    openEvents,     \* 'open' events the connection has emitted
    indexRuns,      \* runs of the 'open' listener
    indexStep,      \* the listener's position: 0 not running, 1 or 2 the createIndex awaited
    indexes,        \* indexes created on cognitiveprofiles
    faultLog,       \* the faults logError was given by the process-level handlers
    httpState,      \* this.server: "listening" | "closing" | "closed"
    shutdowns,      \* gracefulShutdown calls
    closeCbs,       \* server.close callbacks registered and not yet run
    dbClosing,      \* callbacks awaiting mongoose.connection.close()
    timers,         \* force-shutdown timers armed
    closeLog,       \* what has closed, in order: "http", "db"
    launch,         \* the script node was started with ("none" before)
    procState,      \* per cluster process (0: the launched one): its stage
    serverObjects,  \* processes in which a CognitiveServer was constructed
    forks           \* cluster.fork() calls

apiVars   == <<call>>
appVars   == <<pc, steps, stepsOk, initResult, currentSession, userProfile,
               isInitialized, navCreated, errorOverlays, tracked, navigations,
               localStorage, lastLoad, created, serverSessions, reloads, healthResp>>
relayVars == <<sockState, connectCalls, disconnectCalls, errorLogs, closeReason,
               registry>>
trackVars == <<trackCalls, sent, inflight, dropped>>
serverVars == <<srvState, exitCode, exitCause, dbState, dbResumed, openListener,
                openEvents, indexRuns, indexStep, indexes, faultLog, httpState,
                shutdowns, closeCbs, dbClosing, timers, closeLog>>
clusterVars == <<launch, procState, serverObjects, forks>>
vars      == <<call, pc, steps, stepsOk, initResult, currentSession, userProfile,
               isInitialized, navCreated, errorOverlays, tracked, navigations,
               localStorage, lastLoad, created, serverSessions, reloads,
               sockState, connectCalls, disconnectCalls, errorLogs, closeReason,
               registry, healthResp, trackCalls, sent, inflight, dropped,
               srvState, exitCode, exitCause, dbState, dbResumed, openListener,
               openEvents, indexRuns, indexStep, indexes, faultLog, httpState,
               shutdowns, closeCbs, dbClosing, timers, closeLog,
               launch, procState, serverObjects, forks>>

-----------------------------------------------------------------------------
(* JavaScript values.  A JS value the client handles is a record: `kind`    *)
(* says whether it is text that is no JSON, the JSON value null, or an      *)
(* object; an absent property holds Undefined (0 for sessionId).            *)

Undefined == "undefined"

\* JS truthiness of a string-valued property: absent and "" are falsy
Truthy(v) == v \notin {Undefined, ""}

Obj(m, h, id, st, e) ==
    [kind |-> "object", message |-> m, healthy |-> h, sessionId |-> id,
     status |-> st, error |-> e]

EmptyObj == Obj(Undefined, Undefined, 0, Undefined, Undefined)

JsNull == [EmptyObj EXCEPT !.kind = "null"]

TextBody == [EmptyObj EXCEPT !.kind = "text"]

\* the body GET /api/health answers with: no `healthy` property
HealthRouteBody == [EmptyObj EXCEPT !.status = "healthy"]

SessionBody(id) == [EmptyObj EXCEPT !.sessionId = id]

JsonBodies ==
    { EmptyObj,
      [EmptyObj EXCEPT !.message = "Session limit reached"],
      [EmptyObj EXCEPT !.message = ""],
      [EmptyObj EXCEPT !.healthy = "true"],
      [EmptyObj EXCEPT !.healthy = "false"],
      HealthRouteBody,
      SessionBody(1) }

Bodies == JsonBodies \cup {JsNull, TextBody}

Statuses == {200, 201, 404, 409, 429, 500}

\* what `await fetch(...)` delivers: a rejection (no response) or a Response
FetchRejected == [status |-> 0, net |-> FALSE, body |-> TextBody]

Response(st, b) == [status |-> st, net |-> TRUE, body |-> b]

\* the rate limiter's answer: status 429 with a plain-text body
RateLimited == Response(429, TextBody)

Responses == {FetchRejected} \cup {Response(s, b) : s \in Statuses, b \in Bodies}

\* Response.ok
ok(resp) == resp.status >= 200 /\ resp.status <= 299

\* error messages the runtime supplies
FetchErrorMessage  == "Failed to fetch"
SyntaxErrorMessage == "Unexpected token in JSON"
TypeErrorMessage   == "Cannot read properties of null"

HttpMessage(status) ==
    CASE status = 200 -> "HTTP 200"
      [] status = 201 -> "HTTP 201"
      [] status = 404 -> "HTTP 404"
      [] status = 409 -> "HTTP 409"
      [] status = 429 -> "HTTP 429"
      [] status = 500 -> "HTTP 500"
      [] OTHER        -> "HTTP 0"

\* how an async operation ends
Return(v) == [message |-> Undefined, t |-> "return", value |-> v]
Throw(m)  == [message |-> m, t |-> "throw", value |-> JsNull]

\* `throw new Error(error.message || fallback)` after `error = await response.json()`
\* on a response that is not ok
ThrowFromBody(body, fallback) ==
    IF body.kind = "text" THEN Throw(SyntaxErrorMessage)
    ELSE IF body.kind = "null" THEN Throw(TypeErrorMessage)
    ELSE Throw(IF Truthy(body.message) THEN body.message ELSE fallback)

\* `return await response.json()`
ReturnJson(body) ==
    IF body.kind = "text" THEN Throw(SyntaxErrorMessage) ELSE Return(body)

\* try { fetch; if (!response.ok) throw from body; return json } catch { throw error }
Propagating(resp, fallback) ==
    IF ~resp.net THEN Throw(FetchErrorMessage)
    ELSE IF ~ok(resp) THEN ThrowFromBody(resp.body, fallback)
    ELSE ReturnJson(resp.body)

-----------------------------------------------------------------------------
(* CognitiveAPI *)

checkHealth_nocheck(resp) ==
    LET r == IF ~resp.net THEN Throw(FetchErrorMessage) ELSE ReturnJson(resp.body)
    IN  IF r.t = "throw"
        THEN Return(Obj(Undefined, "false", 0, Undefined, r.message))
        ELSE r

checkHealth(resp) ==
    LET r == IF ~resp.net THEN Throw(FetchErrorMessage)
             ELSE IF ~ok(resp) THEN Throw("Health check failed")
             ELSE ReturnJson(resp.body)
    IN  IF r.t = "throw"
        THEN Return(Obj(Undefined, "false", 0, Undefined, r.message))
        ELSE r

createSession_swallow(resp) ==
    LET r == Propagating(resp, "Failed to create session")
    IN  IF r.t = "throw" THEN Return(JsNull) ELSE r

createSession_nocheck(resp) ==
    IF ~resp.net THEN Throw(FetchErrorMessage) ELSE ReturnJson(resp.body)

createSession(resp) == Propagating(resp, "Failed to create session")

trackEvent_rethrow(resp) == Propagating(resp, "Failed to track event")

trackEvent(resp) ==
    LET r == Propagating(resp, "Failed to track event")
    IN  IF r.t = "throw" THEN Return(JsNull) ELSE r

completeSession(resp) == Propagating(resp, "Failed to complete session")

getComparativeInsights(resp) == Propagating(resp, "Failed to get comparative insights")

getVisualization(resp) == Propagating(resp, "Failed to get visualization")

shareProfile(resp) == Propagating(resp, "Failed to share profile")

findCognitiveMatches(resp) == Propagating(resp, "Failed to find matches")

getRecommendation(resp) == Propagating(resp, "Failed to get recommendation")

\* the utility no operation calls
handleError(resp) ==
    IF ~ok(resp)
    THEN IF resp.body.kind = "object" /\ Truthy(resp.body.message)
         THEN Throw(resp.body.message)
         ELSE Throw(HttpMessage(resp.status))
    ELSE Return(JsNull)

\* `before`: what the backend held for the session the call names, when it was made
NoCall == [sessionId |-> 0, resp |-> FetchRejected, op |-> "none", before |-> "none",
           outcome |-> Return(JsNull)]

Called(o, id, b, r, out) ==
    [sessionId |-> id, resp |-> r, op |-> o, before |-> b, outcome |-> out]

-----------------------------------------------------------------------------
(* SpecApi: each operation applied to each response shape *)

InitApi == call = NoCall

ApiCall(op, resp, outcome) ==
    /\ call' = Called(op, 0, "none", resp, outcome)
    /\ UNCHANGED <<appVars, relayVars, trackVars, serverVars, clusterVars>>

CheckHealth == \E r \in Responses : ApiCall("checkHealth", r, checkHealth(r))

CreateSession == \E r \in Responses : ApiCall("createSession", r, createSession(r))

TrackEvent == \E r \in Responses : ApiCall("trackEvent", r, trackEvent(r))

CompleteSession == \E r \in Responses : ApiCall("completeSession", r, completeSession(r))

GetComparativeInsights ==
    \E r \in Responses : ApiCall("getComparativeInsights", r, getComparativeInsights(r))

GetVisualization == \E r \in Responses : ApiCall("getVisualization", r, getVisualization(r))

ShareProfile == \E r \in Responses : ApiCall("shareProfile", r, shareProfile(r))

FindCognitiveMatches ==
    \E r \in Responses : ApiCall("findCognitiveMatches", r, findCognitiveMatches(r))

GetRecommendation == \E r \in Responses : ApiCall("getRecommendation", r, getRecommendation(r))

NextApi ==
    \/ CheckHealth
    \/ CreateSession
    \/ TrackEvent
    \/ CompleteSession
    \/ GetComparativeInsights
    \/ GetVisualization
    \/ ShareProfile
    \/ FindCognitiveMatches
    \/ GetRecommendation

-----------------------------------------------------------------------------
(* SpecRelay: CognitiveServer.initializeSocketIO *)

MaxSockets == 2
MaxErrors  == 2

Sockets == 1..MaxSockets

\* Socket.IO's reasons for a 'disconnect' event: the client left, or the
\* transport failed
ClientReasons == {"client namespace disconnect", "transport close"}
ErrorReasons  == {"transport error", "ping timeout"}
DisconnectReasons == ClientReasons \cup ErrorReasons

\* SocketManager (realtime/socket-manager): a map keyed by connection identifier
handleConnection(reg, s) == reg \cup {s}

handleDisconnect(reg, s) == reg \ {s}

InitRelay ==
    /\ sockState = [s \in Sockets |-> "connecting"]
    /\ connectCalls = [s \in Sockets |-> 0]
    /\ disconnectCalls = [s \in Sockets |-> 0]
    /\ errorLogs = [s \in Sockets |-> 0]
    /\ closeReason = [s \in Sockets |-> "none"]
    /\ registry = {}

\* this.io.on('connection', (socket) => { ... }): the manager is told, then the
\* socket's 'disconnect' and 'error' listeners are registered
OnConnection(s) ==
    /\ sockState[s] = "connecting"
    /\ sockState' = [sockState EXCEPT ![s] = "open"]
    /\ connectCalls' = [connectCalls EXCEPT ![s] = @ + 1]
    /\ registry' = handleConnection(registry, s)
    /\ UNCHANGED <<disconnectCalls, errorLogs, closeReason>>

\* socket.on('disconnect', (reason) => { ... }): Socket.IO emits it once, when
\* the connection closes, whatever the reason
OnDisconnect(s, reason) ==
    /\ sockState[s] = "open"
    /\ sockState' = [sockState EXCEPT ![s] = "closed"]
    /\ closeReason' = [closeReason EXCEPT ![s] = reason]
    /\ disconnectCalls' = [disconnectCalls EXCEPT ![s] = @ + 1]
    /\ registry' = handleDisconnect(registry, s)
    /\ UNCHANGED <<connectCalls, errorLogs>>

OnError_disconnects(s) ==
    /\ sockState[s] = "open"
    /\ errorLogs[s] < MaxErrors
    /\ errorLogs' = [errorLogs EXCEPT ![s] = @ + 1]
    /\ disconnectCalls' = [disconnectCalls EXCEPT ![s] = @ + 1]
    /\ registry' = handleDisconnect(registry, s)
    /\ UNCHANGED <<sockState, connectCalls, closeReason>>

\* socket.on('error', (error) => { ... }): logs, and leaves the connection as it is
OnError(s) ==
    /\ sockState[s] = "open"
    /\ errorLogs[s] < MaxErrors
    /\ errorLogs' = [errorLogs EXCEPT ![s] = @ + 1]
    /\ UNCHANGED <<sockState, connectCalls, disconnectCalls, closeReason, registry>>

SocketConnection == \E s \in Sockets : OnConnection(s)
                    /\ UNCHANGED <<apiVars, appVars, trackVars, serverVars, clusterVars>>

SocketDisconnect ==
    \E s \in Sockets, reason \in DisconnectReasons :
        OnDisconnect(s, reason)
                    /\ UNCHANGED <<apiVars, appVars, trackVars, serverVars, clusterVars>>

SocketError == \E s \in Sockets : OnError(s)
                    /\ UNCHANGED <<apiVars, appVars, trackVars, serverVars, clusterVars>>

NextRelay ==
    \/ SocketConnection
    \/ SocketDisconnect
    \/ SocketError

-----------------------------------------------------------------------------
(* JSON text of a profile.  A string is a sequence of tokens; every value   *)
(* of a profile is a token, "null" being the JSON literal null.             *)

PreferenceDefaults ==
    [theme |-> "dark", difficulty |-> "adaptive", hints |-> "true",
     animations |-> "true"]

Profile(userId, archetype, sessions, createdAt) ==
    [userId |-> userId, archetype |-> archetype, sessions |-> sessions,
     createdAt |-> createdAt, preferences |-> PreferenceDefaults]

\* this.userProfile = null
NullProfile == Profile("null", "null", <<>>, "null")

JSONstringify(p) ==
    <<"{", "userId", p.userId, "archetype", p.archetype, "sessions", "[">>
    \o p.sessions
    \o <<"]", "createdAt", p.createdAt, "preferences", "{", "theme",
          p.preferences.theme, "difficulty", p.preferences.difficulty, "hints",
          p.preferences.hints, "animations", p.preferences.animations, "}", "}">>

\* JSON.parse: [ok, value]; ok is FALSE where JSON.parse throws a SyntaxError
JSONparse(text) ==
    LET n == Len(text) - 22
        at(i) == text[7 + n + i]
        wellFormed ==
            /\ n >= 0
            /\ <<text[1], text[2], text[4], text[6], text[7]>>
                   = <<"{", "userId", "archetype", "sessions", "[">>
            /\ <<at(1), at(2), at(4), at(5), at(6), at(8), at(10), at(12), at(14),
                  at(15)>>
                   = <<"]", "createdAt", "preferences", "{", "theme", "difficulty",
                       "hints", "animations", "}", "}">>
            /\ \A i \in 1..n : text[7 + i] \notin {"[", "]", "{", "}"}
    IN  IF wellFormed
        THEN [ok |-> TRUE,
              value |-> [userId |-> text[3], archetype |-> text[5],
                         sessions |-> SubSeq(text, 8, 7 + n),
                         createdAt |-> at(3),
                         preferences |-> [theme |-> at(7), difficulty |-> at(9),
                                          hints |-> at(11), animations |-> at(13)]]]
        ELSE [ok |-> FALSE, value |-> NullProfile]

-----------------------------------------------------------------------------
(* window.localStorage: the two fixed keys, and one profile key per user    *)
(* identifier (`cognitive_profile_${userId}`), present when in the domain.  *)

NoItem == "<no item>"

UserIds == {"user_1", "user_2"}

Timestamps == {"2026-01-01T00:00:00.000Z", "2026-01-02T00:00:00.000Z"}

EmptyStorage ==
    [cognitive_user_id |-> NoItem, cognitive_session_id |-> 0,
     cognitive_profile |-> [u \in {} |-> <<>>]]

\* a profile an earlier visit left behind, its archetype assigned since
ReturningProfile ==
    Profile("user_1", "explorer", <<"session_9">>, "2025-12-31T00:00:00.000Z")

ReturningText == JSONstringify(ReturningProfile)

StoredTexts ==
    { ReturningText,
      SubSeq(ReturningText, 1, Len(ReturningText) - 1),   \* cut short: no JSON
      <<>> }                                               \* the empty string

InitialStorages ==
    {EmptyStorage, [EmptyStorage EXCEPT !.cognitive_user_id = "user_1"]}
    \cup { [EmptyStorage EXCEPT !.cognitive_user_id = "user_1",
                                !.cognitive_profile = [u \in {"user_1"} |-> t]]
           : t \in StoredTexts }

\* CognitiveApp.getUserId; `fresh` is 'user_' + Date.now() + '_' + random
getUserId(ls, fresh) ==
    IF ls.cognitive_user_id \notin {NoItem, ""}
    THEN [userId |-> ls.cognitive_user_id, ls |-> ls]
    ELSE [userId |-> fresh, ls |-> [ls EXCEPT !.cognitive_user_id = fresh]]

DefaultProfile(userId, now) == Profile(userId, "null", <<>>, now)

loadUserProfile_alwaysDefault(ls, fresh, now) ==
    LET g == getUserId(ls, fresh)
        profile == DefaultProfile(g.userId, now)
    IN  [userId |-> g.userId,
         ls |-> [g.ls EXCEPT !.cognitive_profile =
                                 (g.userId :> JSONstringify(profile)) @@ @],
         result |-> profile, createdDefault |-> TRUE]

loadUserProfile_nopersist(ls, fresh, now) ==
    LET g == getUserId(ls, fresh)
        has == g.userId \in DOMAIN g.ls.cognitive_profile
        storedProfile == IF has THEN g.ls.cognitive_profile[g.userId] ELSE <<>>
        parsed == JSONparse(storedProfile)
    IN  IF has /\ storedProfile # <<>> /\ parsed.ok
        THEN [userId |-> g.userId, ls |-> g.ls, result |-> parsed.value,
              createdDefault |-> FALSE]
        ELSE [userId |-> g.userId, ls |-> g.ls,
              result |-> DefaultProfile(g.userId, now), createdDefault |-> TRUE]

\* CognitiveApp.loadUserProfile: the identifier it used, local storage as it
\* leaves it, what it returns, and whether it built a default profile
loadUserProfile(ls, fresh, now) ==
    LET g == getUserId(ls, fresh)
        has == g.userId \in DOMAIN g.ls.cognitive_profile
        storedProfile == IF has THEN g.ls.cognitive_profile[g.userId] ELSE <<>>
        parsed == JSONparse(storedProfile)
        profile == DefaultProfile(g.userId, now)
    IN  IF has /\ storedProfile # <<>> /\ parsed.ok
        THEN [userId |-> g.userId, ls |-> g.ls, result |-> parsed.value,
              createdDefault |-> FALSE]
        ELSE [userId |-> g.userId,
              ls |-> [g.ls EXCEPT !.cognitive_profile =
                                      (g.userId :> JSONstringify(profile)) @@ @],
              result |-> profile, createdDefault |-> TRUE]

NoLoad ==
    [userId |-> NoItem, result |-> NullProfile, createdDefault |-> FALSE,
     called |-> FALSE, hadItem |-> FALSE, stored |-> <<>>, wrote |-> FALSE,
     persisted |-> <<>>, afterCreated |-> FALSE, expected |-> NullProfile]

NoCreated == [userId |-> NoItem, profile |-> NullProfile, valid |-> FALSE]

-----------------------------------------------------------------------------
(* The backend's session routes (routes/cognitive): a session store that    *)
(* issues identifiers; the session with identifier i is serverSessions[i].  *)

MaxSessions == 2

Ack == EmptyObj

NotFound == Response(404, [EmptyObj EXCEPT !.message = "Session not found"])

AlreadyCompleted == Response(409, [EmptyObj EXCEPT !.message = "Session already completed"])

ServerError == Response(500, [EmptyObj EXCEPT !.message = "Internal server error"])

\* answers that do not come from a route: no response, the rate limiter, a fault
InfraFailures == {FetchRejected, RateLimited, ServerError}

SessionState(sessions, id) ==
    IF id \in 1..Len(sessions) THEN sessions[id] ELSE "unknown"

\* POST /cognitive/session/start: [resp, sessions]
RouteStart(sessions) ==
    [resp |-> Response(200, SessionBody(Len(sessions) + 1)),
     sessions |-> Append(sessions, "active")]

\* POST /cognitive/event: the answers the route may give
RouteEvent(sessions, id) ==
    CASE SessionState(sessions, id) = "active"    -> {Response(200, Ack)}
      [] SessionState(sessions, id) = "completed" -> {Response(200, Ack), AlreadyCompleted}
      [] OTHER                                    -> {NotFound}

\* POST /cognitive/session/complete: the [resp, sessions] the route may end in
RouteComplete(sessions, id) ==
    CASE SessionState(sessions, id) = "active" ->
            {[resp |-> Response(200, Ack),
              sessions |-> [sessions EXCEPT ![id] = "completed"]]}
      [] SessionState(sessions, id) = "completed" ->
            {[resp |-> r, sessions |-> sessions] : r \in {Response(200, Ack), AlreadyCompleted}}
      [] OTHER -> {[resp |-> NotFound, sessions |-> sessions]}

-----------------------------------------------------------------------------
(* SpecApp: CognitiveApp.  Invocation 0 is the DOMContentLoaded handler,    *)
(* invocation n > 0 the n-th startPuzzle click of the page load.  An action *)
(* is what runs between two awaits.                                         *)

MaxClicks  == 1
MaxReloads == 1

Procs == 0..MaxClicks

StepOrder == <<"health", "session", "profile", "viz", "analytics">>

\* what checkHealth may be answered: nothing, the rate limiter, the body of the
\* backend's health route, a body with healthy: true
HealthResponses ==
    {FetchRejected, RateLimited, Response(200, HealthRouteBody),
     Response(200, [EmptyObj EXCEPT !.healthy = "true"])}

\* `health.healthy` is truthy (reading it off null throws inside init's try)
HealthPassed(health) == health.kind = "object" /\ health.healthy = "true"

InitFlow_continue(step, succeeded) ==
    CASE step = "health"    -> "session"
      [] step = "session"   -> "profile"
      [] step = "profile"   -> "viz"
      [] step = "viz"       -> "analytics"
      [] OTHER              -> "ready"

\* init's control flow: the step after `step`, "ready" after the last one,
\* "failed" (the catch block) as soon as one throws
InitFlow(step, succeeded) ==
    IF ~succeeded THEN "failed"
    ELSE CASE step = "health"    -> "session"
           [] step = "session"   -> "profile"
           [] step = "profile"   -> "viz"
           [] step = "viz"       -> "analytics"
           [] OTHER              -> "ready"

\* invocation p's init leaves `step`; ls is localStorage as the step left it
Advance(p, step, succeeded, ls, fresh) ==
    LET next == InitFlow(step, succeeded)
    IN  /\ stepsOk' = [stepsOk EXCEPT ![p] = IF succeeded THEN @ \cup {step} ELSE @]
        /\ CASE next = "failed" ->        \* catch: showError(error); return false
                    /\ pc' = [pc EXCEPT ![p] = "returned"]
                    /\ initResult' = [initResult EXCEPT ![p] = "false"]
                    /\ errorOverlays' = [errorOverlays EXCEPT ![p] = @ + 1]
                    /\ localStorage' = ls
                    /\ UNCHANGED <<steps, isInitialized>>
             [] next = "ready" ->         \* isInitialized = true; return true
                    /\ pc' = [pc EXCEPT ![p] = "returned"]
                    /\ initResult' = [initResult EXCEPT ![p] = "true"]
                    /\ isInitialized' = TRUE
                    /\ localStorage' = ls
                    /\ UNCHANGED <<steps, errorOverlays>>
             [] OTHER ->                  \* the next step starts
                    /\ pc' = [pc EXCEPT ![p] = next]
                    /\ steps' = [steps EXCEPT ![p] = Append(@, next)]
                    \* startNewSession reads the user identifier before it fetches
                    /\ localStorage' = IF next = "session" THEN getUserId(ls, fresh).ls
                                       ELSE ls
                    /\ UNCHANGED <<initResult, errorOverlays, isInitialized>>

\* startNewSession once createSession has settled with r: it throws what
\* createSession threw (or on reading sessionId off null); otherwise it stores
\* the identifier, tracks session_start and returns the session
startNewSession(ls, r) ==
    IF r.t = "return" /\ r.value.kind = "object"
    THEN [value |-> r.value,
          ls |-> [ls EXCEPT !.cognitive_session_id = r.value.sessionId],
          threw |-> FALSE]
    ELSE [value |-> JsNull, ls |-> ls, threw |-> TRUE]

InitApp ==
    /\ pc = [p \in Procs |-> "idle"]
    /\ steps = [p \in Procs |-> <<>>]
    /\ stepsOk = [p \in Procs |-> {}]
    /\ initResult = [p \in Procs |-> "none"]
    /\ currentSession = JsNull
    /\ userProfile = NullProfile
    /\ isInitialized = FALSE
    /\ navCreated = FALSE
    /\ errorOverlays = [p \in Procs |-> 0]
    /\ tracked = {}
    /\ navigations = {}
    /\ localStorage \in InitialStorages
    /\ lastLoad = NoLoad
    /\ created = NoCreated
    /\ serverSessions = <<>>
    /\ reloads = 0
    /\ healthResp = [p \in Procs |-> FetchRejected]

\* init() up to its first await: checkHealth's fetch is on its way
BeginInit(p) ==
    /\ pc' = [pc EXCEPT ![p] = "health"]
    /\ steps' = [steps EXCEPT ![p] = <<"health">>]
    /\ UNCHANGED <<stepsOk, initResult, isInitialized, errorOverlays, localStorage>>

\* startPuzzle after its init, or without one: track puzzle_start, navigate
PuzzleStart(p) ==
    /\ pc' = [pc EXCEPT ![p] = "done"]
    /\ tracked' = tracked \cup {<<"puzzle_start", p>>}
    /\ navigations' = navigations \cup {p}

DOMContentLoaded ==
    /\ pc[0] = "idle"
    /\ BeginInit(0)
    /\ UNCHANGED <<call, healthResp, currentSession, userProfile, navCreated, tracked,
                   navigations, lastLoad, created, serverSessions, reloads, relayVars,
                                        trackVars, serverVars, clusterVars>>

\* a click on #startPuzzle or #heroStart: startPuzzle() up to its first await
StartPuzzle ==
    \E p \in Procs \ {0} :
        /\ navCreated
        /\ pc[p] = "idle"
        /\ \A q \in 1..(p - 1) : pc[q] # "idle"
        /\ IF ~isInitialized
           THEN BeginInit(p) /\ UNCHANGED <<tracked, navigations>>
           ELSE PuzzleStart(p)
                /\ UNCHANGED <<steps, stepsOk, initResult, isInitialized, errorOverlays,
                               localStorage>>
        /\ UNCHANGED <<call, healthResp, currentSession, userProfile, navCreated, lastLoad, created,
                       serverSessions, reloads, relayVars,
                                        trackVars, serverVars, clusterVars>>

\* init resumes with checkHealth's result
HealthResponse ==
    \E p \in Procs, resp \in HealthResponses, fresh \in UserIds :
        /\ pc[p] = "health"
        /\ healthResp' = [healthResp EXCEPT ![p] = resp]
        /\ LET r == checkHealth(resp)
           IN  Advance(p, "health", r.t = "return" /\ HealthPassed(r.value),
                       localStorage, fresh)
        /\ UNCHANGED <<call, currentSession, userProfile, navCreated, tracked, navigations,
                       lastLoad, created, serverSessions, reloads, relayVars,
                                        trackVars, serverVars, clusterVars>>

\* startNewSession resumes with createSession's result
SessionResponse ==
    \E p \in Procs, fresh \in UserIds :
      \E o \in {[resp |-> f, sessions |-> serverSessions] : f \in InfraFailures}
                \cup (IF Len(serverSessions) < MaxSessions
                      THEN {RouteStart(serverSessions)} ELSE {}) :
        /\ pc[p] = "session"
        /\ serverSessions' = o.sessions
        /\ LET s == startNewSession(localStorage, createSession(o.resp))
           IN  /\ currentSession' = IF s.threw THEN currentSession ELSE s.value
               /\ tracked' = IF s.threw THEN tracked
                             ELSE tracked \cup {<<"session_start", p>>}
               /\ Advance(p, "session", ~s.threw, s.ls, fresh)
        /\ UNCHANGED <<call, healthResp, userProfile, navCreated, navigations, lastLoad, created,
                       reloads, relayVars,
                                        trackVars, serverVars, clusterVars>>

\* this.userProfile = await this.loadUserProfile()
ProfileStep ==
    \E p \in Procs, fresh \in UserIds, now \in Timestamps :
        /\ pc[p] = "profile"
        /\ LET l == loadUserProfile(localStorage, fresh, now)
               id == localStorage.cognitive_user_id
               had == id \in DOMAIN localStorage.cognitive_profile
           IN  /\ userProfile' = l.result
               /\ lastLoad' =
                     [userId |-> l.userId, result |-> l.result,
                      createdDefault |-> l.createdDefault, called |-> TRUE,
                      hadItem |-> had,
                      stored |-> IF had THEN localStorage.cognitive_profile[id] ELSE <<>>,
                      wrote |-> l.ls # localStorage,
                      persisted |-> IF l.userId \in DOMAIN l.ls.cognitive_profile
                                    THEN l.ls.cognitive_profile[l.userId] ELSE <<>>,
                      afterCreated |-> created.valid /\ created.userId = l.userId,
                      expected |-> created.profile]
               /\ created' = IF l.createdDefault
                             THEN [userId |-> l.userId, profile |-> l.result,
                                   valid |-> TRUE]
                             ELSE created
               /\ Advance(p, "profile", TRUE, l.ls, fresh)
        /\ UNCHANGED <<call, healthResp, currentSession, navCreated, tracked, navigations,
                       serverSessions, reloads, relayVars,
                                        trackVars, serverVars, clusterVars>>

\* await this.initializeVisualizations(): createNeuralVisualization, then
\* createNavigation (the startPuzzle button and its listener), then the rest
VizStep ==
    \E p \in Procs, fresh \in UserIds,
       outcome \in {"done", "throws before createNavigation",
                    "throws after createNavigation"} :
        /\ pc[p] = "viz"
        /\ navCreated' = (navCreated \/ outcome # "throws before createNavigation")
        /\ Advance(p, "viz", outcome = "done", localStorage, fresh)
        /\ UNCHANGED <<call, healthResp, currentSession, userProfile, tracked, navigations,
                       lastLoad, created, serverSessions, reloads, relayVars,
                                        trackVars, serverVars, clusterVars>>

\* init resumes after `await startSession()` of analytics/tracker.js
AnalyticsResponse ==
    \E p \in Procs, fresh \in UserIds, resolved \in BOOLEAN :
        /\ pc[p] = "analytics"
        /\ Advance(p, "analytics", resolved, localStorage, fresh)
        /\ UNCHANGED <<call, healthResp, currentSession, userProfile, navCreated, tracked,
                       navigations, lastLoad, created, serverSessions, reloads,
                       relayVars,
                                        trackVars, serverVars, clusterVars>>

\* startPuzzle resumes after `await this.init()`
StartPuzzleResume ==
    \E p \in Procs \ {0} :
        /\ pc[p] = "returned"
        /\ PuzzleStart(p)
        /\ UNCHANGED <<call, healthResp, steps, stepsOk, initResult, currentSession, userProfile,
                       isInitialized, navCreated, errorOverlays, localStorage, lastLoad,
                       created, serverSessions, reloads, relayVars,
                                        trackVars, serverVars, clusterVars>>

\* the user clears the origin's local storage
ClearStorage ==
    /\ localStorage # EmptyStorage
    /\ localStorage' = EmptyStorage
    /\ created' = NoCreated
    /\ UNCHANGED <<call, healthResp, pc, steps, stepsOk, initResult, currentSession, userProfile,
                   isInitialized, navCreated, errorOverlays, tracked, navigations,
                   lastLoad, serverSessions, reloads, relayVars,
                                        trackVars, serverVars, clusterVars>>

\* location.reload() (the overlay's Retry button, or the browser's): a new page
\* and a new CognitiveApp; local storage and the backend stay as they are
Reload ==
    /\ reloads < MaxReloads
    /\ reloads' = reloads + 1
    /\ pc' = [p \in Procs |-> "idle"]
    /\ steps' = [p \in Procs |-> <<>>]
    /\ stepsOk' = [p \in Procs |-> {}]
    /\ initResult' = [p \in Procs |-> "none"]
    /\ currentSession' = JsNull
    /\ userProfile' = NullProfile
    /\ isInitialized' = FALSE
    /\ navCreated' = FALSE
    /\ errorOverlays' = [p \in Procs |-> 0]
    /\ tracked' = {}
    /\ navigations' = {}
    /\ healthResp' = [p \in Procs |-> FetchRejected]
    /\ UNCHANGED <<call, localStorage, lastLoad, created, serverSessions, relayVars,
                                        trackVars, serverVars, clusterVars>>

NextApp ==
    \/ DOMContentLoaded
    \/ StartPuzzle
    \/ HealthResponse
    \/ SessionResponse
    \/ ProfileStep
    \/ VizStep
    \/ AnalyticsResponse
    \/ StartPuzzleResume
    \/ ClearStorage
    \/ Reload

-----------------------------------------------------------------------------
(* SpecSession: the session pipeline, the page against the session routes  *)

\* a session starts: startNewSession as one step, request and answer
SessionStart ==
    \E fresh \in UserIds :
      \E o \in {[resp |-> f, sessions |-> serverSessions] : f \in InfraFailures}
                \cup (IF Len(serverSessions) < MaxSessions
                      THEN {RouteStart(serverSessions)} ELSE {}) :
        LET r == createSession(o.resp)
            s == startNewSession(getUserId(localStorage, fresh).ls, r)
        IN  /\ call' = Called("createSession", 0, "none", o.resp, r)
            /\ serverSessions' = o.sessions
            /\ localStorage' = s.ls
            /\ currentSession' = IF s.threw THEN currentSession ELSE s.value
            /\ tracked' = IF s.threw THEN tracked
                          ELSE tracked \cup {<<"session_start", 0>>}
            /\ UNCHANGED <<healthResp, pc, steps, stepsOk, initResult, userProfile, isInitialized,
                           navCreated, errorOverlays, navigations, lastLoad, created,
                           reloads, relayVars,
                                        trackVars, serverVars, clusterVars>>

\* the page reports an event of the session it holds: CognitiveAPI.trackEvent
SessionTrackEvent ==
    /\ currentSession.kind = "object"
    /\ LET id == currentSession.sessionId
       IN  \E resp \in InfraFailures \cup RouteEvent(serverSessions, id) :
               call' = Called("trackEvent", id, SessionState(serverSessions, id), resp,
                              trackEvent(resp))
    /\ UNCHANGED <<appVars, relayVars, trackVars, serverVars, clusterVars>>

\* the page completes the session it holds: CognitiveAPI.completeSession
SessionComplete ==
    /\ currentSession.kind = "object"
    /\ LET id == currentSession.sessionId
       IN  \E o \in {[resp |-> f, sessions |-> serverSessions] : f \in InfraFailures}
                     \cup RouteComplete(serverSessions, id) :
               /\ call' = Called("completeSession", id, SessionState(serverSessions, id),
                                 o.resp, completeSession(o.resp))
               /\ serverSessions' = o.sessions
    /\ UNCHANGED <<healthResp, pc, steps, stepsOk, initResult, currentSession, userProfile,
                   isInitialized, navCreated, errorOverlays, tracked, navigations,
                   localStorage, lastLoad, created, reloads, relayVars,
                                        trackVars, serverVars, clusterVars>>

NextSession ==
    \/ SessionStart
    \/ SessionTrackEvent
    \/ SessionComplete

-----------------------------------------------------------------------------
(* SpecTrack: CognitiveAPI.trackEvent on the wire.  A call issues its fetch *)
(* before its first await, so the request is on the wire when the call      *)
(* returns its promise; the response settles the call later.  Callers that  *)
(* do not await are included: several calls may be in flight.               *)

MaxEvents == 3

\* a call is <<session id, ordinal of the call>>
SessionIds == 1..MaxSessions

\* what the event route, or the path to it, may answer
TrackResponses == InfraFailures \cup {Response(200, Ack), NotFound}

InitTrack ==
    /\ trackCalls = <<>>
    /\ sent = <<>>
    /\ inflight = {}
    /\ dropped = {}

\* trackEvent(sessionId, eventType, data) up to `await fetch(...)`
TrackEventCall ==
    \E id \in SessionIds :
        /\ Len(trackCalls) < MaxEvents
        /\ LET ev == <<id, Len(trackCalls) + 1>>
           IN  /\ trackCalls' = Append(trackCalls, ev)
               /\ sent' = Append(sent, ev)
               /\ inflight' = inflight \cup {ev}
        /\ UNCHANGED <<dropped, apiVars, appVars, relayVars, serverVars, clusterVars>>

TrackEventSettle_retry(ev, resp) ==
    /\ ev \in inflight
    /\ IF trackEvent(resp).value = JsNull /\ Len(sent) < 2 * MaxEvents
       THEN sent' = Append(sent, ev) /\ UNCHANGED <<inflight, dropped>>
       ELSE inflight' = inflight \ {ev} /\ UNCHANGED <<sent, dropped>>
    /\ UNCHANGED <<trackCalls, apiVars, appVars, relayVars, serverVars, clusterVars>>

\* the call resumes with the response (or the rejection) and settles: the
\* parsed body, or null from the catch block; nothing is sent again
TrackEventSettle(ev, resp) ==
    /\ ev \in inflight
    /\ inflight' = inflight \ {ev}
    /\ dropped' = IF trackEvent(resp).value = JsNull THEN dropped \cup {ev} ELSE dropped
    /\ UNCHANGED <<trackCalls, sent, apiVars, appVars, relayVars, serverVars,
                   clusterVars>>

TrackEventResponse ==
    \E ev \in inflight, resp \in TrackResponses : TrackEventSettle(ev, resp)

NextTrack ==
    \/ TrackEventCall
    \/ TrackEventResponse

-----------------------------------------------------------------------------
(* SpecServer: one server process, from the moment `new CognitiveServer()`  *)
(* and start() have returned: the database connection is being opened, the  *)
(* process-level handlers and the signal handlers are registered.           *)

MaxFaults  == 2
MaxSignals == 2
MaxReopens == 1

Signals == {"SIGTERM", "SIGINT"}

InitServer ==
    /\ srvState = "running"
    /\ exitCode = -1
    /\ exitCause = "none"
    /\ dbState = "connecting"
    /\ dbResumed = FALSE
    /\ openListener = FALSE
    /\ openEvents = 0
    /\ indexRuns = 0
    /\ indexStep = 0
    /\ indexes = 0
    /\ faultLog = <<>>
    /\ httpState = "listening"
    /\ shutdowns = 0
    /\ closeCbs = 0
    /\ dbClosing = 0
    /\ timers = 0
    /\ closeLog = <<>>

\* process.exit(code)
Exit(code, cause) ==
    /\ srvState' = "exited"
    /\ exitCode' = code
    /\ exitCause' = cause

\* the connection emits 'open': an EventEmitter calls the listeners registered
\* at that moment; a once() listener is removed as it is called, and the index
\* handler runs up to its first await
EmitOpen ==
    /\ openEvents' = openEvents + 1
    /\ IF openListener
       THEN /\ openListener' = FALSE
            /\ indexRuns' = indexRuns + 1
            /\ indexStep' = 1
       ELSE UNCHANGED <<openListener, indexRuns, indexStep>>

\* mongoose opens the connection: readyState becomes connected, 'open' is
\* emitted, and the promise of connect() resolves
DbConnectSucceeds ==
    /\ srvState = "running"
    /\ dbState = "connecting"
    /\ dbState' = "connected"
    /\ EmitOpen
    /\ UNCHANGED <<srvState, exitCode, exitCause, dbResumed, indexes, faultLog,
                   httpState, shutdowns, closeCbs, dbClosing, timers, closeLog,
                   apiVars, appVars, relayVars, trackVars, clusterVars>>

\* connect() rejects: the catch block logs and calls process.exit(1)
DbConnectFails ==
    /\ srvState = "running"
    /\ dbState = "connecting"
    /\ dbState' = "failed"
    /\ Exit(1, "db connection error")
    /\ UNCHANGED <<dbResumed, openListener, openEvents, indexRuns, indexStep, indexes,
                   faultLog, httpState, shutdowns, closeCbs, dbClosing, timers,
                   closeLog, apiVars, appVars, relayVars, trackVars, clusterVars>>

\* initializeDatabase resumes after the await: it logs and registers the
\* once('open') listener that creates the indexes
DbConnectResume ==
    /\ srvState = "running"
    /\ dbState \notin {"connecting", "failed"}
    /\ ~dbResumed
    /\ dbResumed' = TRUE
    /\ openListener' = TRUE
    /\ UNCHANGED <<srvState, exitCode, exitCause, dbState, openEvents, indexRuns,
                   indexStep, indexes, faultLog, httpState, shutdowns, closeCbs,
                   dbClosing, timers, closeLog,
                   apiVars, appVars, relayVars, trackVars, clusterVars>>

\* later the connection is lost and opened again: 'open' is emitted once more
DbReopen ==
    /\ srvState = "running"
    /\ dbState = "connected"
    /\ dbResumed
    /\ openEvents < 1 + MaxReopens
    /\ EmitOpen
    /\ UNCHANGED <<srvState, exitCode, exitCause, dbState, dbResumed, indexes,
                   faultLog, httpState, shutdowns, closeCbs, dbClosing, timers,
                   closeLog, apiVars, appVars, relayVars, trackVars, clusterVars>>

\* the index handler resumes after a createIndex: the next one, or the end; a
\* rejection goes to its catch block, which warns
CreateIndex ==
    \E created_ok \in BOOLEAN :
        /\ srvState = "running"
        /\ indexStep \in {1, 2}
        /\ IF created_ok
           THEN /\ indexes' = indexes + 1
                /\ indexStep' = IF indexStep = 1 THEN 2 ELSE 0
           ELSE /\ indexStep' = 0
                /\ UNCHANGED indexes
        /\ UNCHANGED <<srvState, exitCode, exitCause, dbState, dbResumed, openListener,
                       openEvents, indexRuns, faultLog, httpState, shutdowns, closeCbs,
                       dbClosing, timers, closeLog,
                       apiVars, appVars, relayVars, trackVars, clusterVars>>

\* process.on('uncaughtException'): log, logError, process.exit(1)
UncaughtException ==
    /\ srvState = "running"
    /\ Len(faultLog) < MaxFaults
    /\ faultLog' = Append(faultLog, "uncaughtException")
    /\ Exit(1, "uncaughtException")
    /\ UNCHANGED <<dbState, dbResumed, openListener, openEvents, indexRuns, indexStep,
                   indexes, httpState, shutdowns, closeCbs, dbClosing, timers, closeLog,
                   apiVars, appVars, relayVars, trackVars, clusterVars>>

\* process.on('unhandledRejection'): log, logError; the handler returns
UnhandledRejection ==
    /\ srvState = "running"
    /\ Len(faultLog) < MaxFaults
    /\ faultLog' = Append(faultLog, "unhandledRejection")
    /\ UNCHANGED <<srvState, exitCode, exitCause, dbState, dbResumed, openListener,
                   openEvents, indexRuns, indexStep, indexes, httpState, shutdowns,
                   closeCbs, dbClosing, timers, closeLog,
                   apiVars, appVars, relayVars, trackVars, clusterVars>>

\* SIGTERM or SIGINT: gracefulShutdown() runs to its end: io.close,
\* server.close with its callback, the force timer; a throw on the way goes to
\* the catch block
Signal ==
    \E sig \in Signals, throws \in BOOLEAN :
        /\ srvState = "running"
        /\ shutdowns < MaxSignals
        /\ shutdowns' = shutdowns + 1
        /\ IF throws
           THEN /\ Exit(1, "shutdown error")
                /\ UNCHANGED <<httpState, closeCbs, timers>>
           ELSE /\ httpState' = IF httpState = "listening" THEN "closing" ELSE httpState
                /\ closeCbs' = closeCbs + 1
                /\ timers' = timers + 1
                /\ UNCHANGED <<srvState, exitCode, exitCause>>
        /\ UNCHANGED <<dbState, dbResumed, openListener, openEvents, indexRuns,
                       indexStep, indexes, faultLog, dbClosing, closeLog,
                       apiVars, appVars, relayVars, trackVars, clusterVars>>

\* the HTTP server has stopped listening and its last connection has ended
HttpClosed ==
    /\ srvState = "running"
    /\ httpState = "closing"
    /\ httpState' = "closed"
    /\ closeLog' = Append(closeLog, "http")
    /\ UNCHANGED <<srvState, exitCode, exitCause, dbState, dbResumed, openListener,
                   openEvents, indexRuns, indexStep, indexes, faultLog, shutdowns,
                   closeCbs, dbClosing, timers,
                   apiVars, appVars, relayVars, trackVars, clusterVars>>

CloseCallback_exits ==
    /\ srvState = "running"
    /\ httpState = "closed"
    /\ closeCbs > 0
    /\ closeCbs' = closeCbs - 1
    /\ Exit(0, "shutdown complete")
    /\ UNCHANGED <<dbState, dbResumed, openListener, openEvents, indexRuns, indexStep,
                   indexes, faultLog, httpState, shutdowns, dbClosing, timers, closeLog,
                   apiVars, appVars, relayVars, trackVars, clusterVars>>

\* the callback given to server.close, up to `await mongoose.connection.close()`
CloseCallback ==
    /\ srvState = "running"
    /\ httpState = "closed"
    /\ closeCbs > 0
    /\ closeCbs' = closeCbs - 1
    /\ dbClosing' = dbClosing + 1
    /\ UNCHANGED <<srvState, exitCode, exitCause, dbState, dbResumed, openListener,
                   openEvents, indexRuns, indexStep, indexes, faultLog, httpState,
                   shutdowns, timers, closeLog,
                   apiVars, appVars, relayVars, trackVars, clusterVars>>

\* the callback resumes: the connection is closed and it calls process.exit(0);
\* or close() rejected, the callback's promise rejects with nobody awaiting
\* it, and the 'unhandledRejection' handler logs
DbClose ==
    \E closed \in BOOLEAN :
        /\ srvState = "running"
        /\ dbClosing > 0
        /\ dbClosing' = dbClosing - 1
        /\ IF closed
           THEN /\ dbState' = "closed"
                /\ closeLog' = Append(closeLog, "db")
                /\ Exit(0, "shutdown complete")
                /\ UNCHANGED faultLog
           ELSE /\ faultLog' = IF Len(faultLog) < MaxFaults
                               THEN Append(faultLog, "unhandledRejection")
                               ELSE faultLog
                /\ UNCHANGED <<srvState, exitCode, exitCause, dbState, closeLog>>
        /\ UNCHANGED <<dbResumed, openListener, openEvents, indexRuns, indexStep,
                       indexes, httpState, shutdowns, closeCbs, timers,
                       apiVars, appVars, relayVars, trackVars, clusterVars>>

\* the timer of gracefulShutdown fires, ten seconds after the signal
ForceTimer ==
    /\ srvState = "running"
    /\ timers > 0
    /\ Exit(1, "force timer")
    /\ UNCHANGED <<dbState, dbResumed, openListener, openEvents, indexRuns, indexStep,
                   indexes, faultLog, httpState, shutdowns, closeCbs, dbClosing, timers,
                   closeLog, apiVars, appVars, relayVars, trackVars, clusterVars>>

NextServer ==
    \/ DbConnectSucceeds
    \/ DbConnectFails
    \/ DbConnectResume
    \/ DbReopen
    \/ CreateIndex
    \/ UncaughtException
    \/ UnhandledRejection
    \/ Signal
    \/ HttpClosed
    \/ CloseCallback
    \/ DbClose
    \/ ForceTimer

\* what the runtime guarantees: a timer that is armed fires, a promise
\* continuation runs, connect() and createIndex() settle (the driver's
\* timeouts).  Signals, faults, the peers' connections and a reconnect of the
\* database are the environment's
FairServer ==
    /\ WF_vars(ForceTimer)
    /\ WF_vars(DbConnectSucceeds \/ DbConnectFails)
    /\ WF_vars(DbConnectResume)
    /\ WF_vars(CreateIndex)

-----------------------------------------------------------------------------
(* SpecCluster: the processes `node <script>` starts.  Process 0 is the one *)
(* launched; with server.js it is the cluster master, and the others are    *)
(* the workers it forks, each running the same script.                      *)

MaxCPUs     == 5
MaxRestarts == 1
WorkerCap   == 4

Scripts == {"server.js", "backend/server.js"}

ClusterProcs == 0..(WorkerCap + MaxRestarts)

Min(a, b) == IF a < b THEN a ELSE b

\* backend/server.js is loaded in a process whose main module is mainScript:
\* `if (require.main === module)` constructs the server and calls start()
LoadBackendServer(mainScript) ==
    IF mainScript = "backend/server.js" THEN "started" ELSE "loaded"

InitCluster ==
    /\ launch = "none"
    /\ procState = [p \in ClusterProcs |-> "none"]
    /\ serverObjects = {}
    /\ forks = 0

\* node server.js: cluster.isMaster, fork min(numCPUs, 4) workers;
\* node backend/server.js: the module is the main module
Launch ==
    \E script \in Scripts, numCPUs \in 1..MaxCPUs :
        /\ launch = "none"
        /\ launch' = script
        /\ IF script = "server.js"
           THEN /\ procState' = [p \in ClusterProcs |->
                                   IF p = 0 THEN "master"
                                   ELSE IF p <= Min(numCPUs, WorkerCap) THEN "forked"
                                   ELSE "none"]
                /\ forks' = Min(numCPUs, WorkerCap)
                /\ UNCHANGED serverObjects
           ELSE /\ procState' = [procState EXCEPT ![0] = LoadBackendServer(script)]
                /\ serverObjects' = IF LoadBackendServer(script) = "started"
                                    THEN serverObjects \cup {0} ELSE serverObjects
                /\ UNCHANGED forks
        /\ UNCHANGED <<apiVars, appVars, relayVars, trackVars, serverVars>>

\* a worker runs the script it was forked with: the else branch of server.js
\* requires ./backend/server.js
WorkerRun ==
    \E w \in ClusterProcs \ {0} :
        /\ procState[w] = "forked"
        /\ procState' = [procState EXCEPT ![w] = LoadBackendServer(launch)]
        /\ serverObjects' = IF LoadBackendServer(launch) = "started"
                            THEN serverObjects \cup {w} ELSE serverObjects
        /\ UNCHANGED <<launch, forks, apiVars, appVars, relayVars, trackVars, serverVars>>

\* the callback of this.server.listen: the port is bound
Listening ==
    \E p \in ClusterProcs :
        /\ procState[p] = "started"
        /\ procState' = [procState EXCEPT ![p] = "listening"]
        /\ UNCHANGED <<launch, serverObjects, forks,
                       apiVars, appVars, relayVars, trackVars, serverVars>>

\* a worker exits; cluster.on('exit') forks another one
WorkerExit ==
    \E w \in ClusterProcs \ {0} :
        /\ procState[w] \in {"forked", "loaded", "started", "listening"}
        /\ forks < WorkerCap + MaxRestarts
        /\ procState' = [procState EXCEPT ![w] = "dead", ![forks + 1] = "forked"]
        /\ forks' = forks + 1
        /\ UNCHANGED <<launch, serverObjects,
                       apiVars, appVars, relayVars, trackVars, serverVars>>

NextCluster ==
    \/ Launch
    \/ WorkerRun
    \/ Listening
    \/ WorkerExit

-----------------------------------------------------------------------------

Init == InitApi /\ InitApp /\ InitRelay /\ InitTrack /\ InitServer /\ InitCluster

Next ==
    NextApi \/ NextApp \/ NextSession \/ NextRelay \/ NextTrack \/ NextServer
        \/ NextCluster

Spec == Init /\ [][Next]_vars

SpecApi == Init /\ [][NextApi]_vars

SpecApp == Init /\ [][NextApp]_vars

SpecSession == Init /\ [][NextSession]_vars

SpecRelay == Init /\ [][NextRelay]_vars

SpecTrack == Init /\ [][NextTrack]_vars

SpecServer == Init /\ [][NextServer]_vars

LiveServer == Init /\ [][NextServer]_vars /\ FairServer

SpecCluster == Init /\ [][NextCluster]_vars

-----------------------------------------------------------------------------
(* Properties *)

\* a response that is a failure: none arrived, its status is not 2xx, or its
\* body is no JSON
Failure(resp) == ~resp.net \/ ~ok(resp) \/ resp.body.kind = "text"

PropagatingOps ==
    {"createSession", "completeSession", "getComparativeInsights", "getVisualization",
     "shareProfile", "findCognitiveMatches", "getRecommendation"}

\* C1: every init run starts its steps in the order health, session, profile,
\* viz, analytics; a step is started only when all steps before it completed
\* successfully; a run that failed has started no step after the failing one.
C1_InitStepsInOrder ==
    \A p \in Procs :
        /\ Len(steps[p]) <= Len(StepOrder)
        /\ \A i \in 1..Len(steps[p]) :
               /\ steps[p][i] = StepOrder[i]
               /\ \A j \in 1..(i - 1) : StepOrder[j] \in stepsOk[p]
        /\ initResult[p] = "false" =>
               /\ steps[p] # <<>>
               /\ steps[p][Len(steps[p])] \notin stepsOk[p]
               /\ pc[p] \in {"returned", "done"}

\* C1 witness: one run failed at the fourth step, another ran all five
C1_Witness ==
    \E p, q \in Procs :
        /\ initResult[p] = "false" /\ steps[p] = SubSeq(StepOrder, 1, 4)
        /\ initResult[q] = "true" /\ steps[q] = StepOrder

\* C2: trackEvent never throws; on every failure it resolves to null, and
\* otherwise (a 2xx response with a JSON body) to the parsed body.
C2_TrackEventNeverRaises ==
    call.op = "trackEvent" =>
        call.outcome = IF Failure(call.resp) THEN Return(JsNull)
                       ELSE Return(call.resp.body)

\* C2 witness: trackEvent met a network failure and resolved to null
C2_Witness ==
    call.op = "trackEvent" /\ ~call.resp.net /\ call.outcome = Return(JsNull)

\* C3: checkHealth never throws; when no response arrives or the status is not
\* 2xx it resolves to { healthy: false, error: <message> }.
C3_CheckHealthNeverRaises ==
    call.op = "checkHealth" =>
        /\ call.outcome.t = "return"
        /\ (~call.resp.net \/ ~ok(call.resp)) =>
               /\ call.outcome.value.kind = "object"
               /\ call.outcome.value.healthy = "false"
               /\ call.outcome.value.error =
                      IF call.resp.net THEN "Health check failed" ELSE FetchErrorMessage

\* C3 witness: the health check of a backend answering 500
C3_Witness ==
    /\ call.op = "checkHealth" /\ call.resp.net /\ call.resp.status = 500
    /\ call.outcome.value.healthy = "false"

\* C4 as claimed: on a failure trackEvent alone resolves to null, and every
\* other operation, the health check included, throws.
C4_OnlyTrackEventSwallows ==
    (call.op # "none" /\ Failure(call.resp)) =>
        IF call.op = "trackEvent" THEN call.outcome = Return(JsNull)
        ELSE call.outcome.t = "throw"

\* C4 as amended: on a failure trackEvent resolves to null, checkHealth resolves
\* to a record with healthy: false, and each of the other seven operations throws.
C4_TrackEventAndHealthSwallow ==
    (call.op # "none" /\ Failure(call.resp)) =>
        CASE call.op = "trackEvent"  -> call.outcome = Return(JsNull)
          [] call.op = "checkHealth" -> /\ call.outcome.t = "return"
                                        /\ call.outcome.value.healthy = "false"
          [] OTHER                   -> /\ call.op \in PropagatingOps
                                        /\ call.outcome.t = "throw"

\* C4 witness: createSession met a network failure and threw
C4_Witness ==
    call.op = "createSession" /\ ~call.resp.net /\ call.outcome.t = "throw"

\* C5: an error-propagating operation turns a non-2xx response into an error
\* whose message is the body's message when it carries one and "HTTP <status>"
\* otherwise (also when the body is no JSON), as handleError does; a network
\* failure is thrown as an error too.
C5_UniformError ==
    call.op \in PropagatingOps =>
        /\ (call.resp.net /\ ~ok(call.resp)) => call.outcome = handleError(call.resp)
        /\ ~call.resp.net => call.outcome.t = "throw"

\* C6: when the current user identifier has a profile in local storage,
\* loadUserProfile returns the object that was serialized there, builds no
\* default profile and writes nothing to local storage.
C6_StoredProfileReturned ==
    \A q \in {ReturningProfile}
              \cup {DefaultProfile(u, t) : u \in UserIds, t \in Timestamps} :
        (lastLoad.called /\ lastLoad.hadItem /\ lastLoad.stored = JSONstringify(q)) =>
            /\ lastLoad.result = q
            /\ ~lastLoad.createdDefault
            /\ ~lastLoad.wrote

\* C6 witness: the returning user's profile was loaded
C6_Witness ==
    /\ lastLoad.called /\ lastLoad.hadItem
    /\ lastLoad.stored = ReturningText
    /\ userProfile = ReturningProfile

\* C7: with no profile stored for the user, loadUserProfile builds a default
\* profile (archetype null, no sessions) and persists it under the user's key;
\* a later call, local storage not cleared in between, returns an equal profile
\* and builds no other.
C7_DefaultProfileCreatedOnce ==
    /\ (lastLoad.called /\ ~lastLoad.hadItem) =>
           /\ lastLoad.createdDefault
           /\ lastLoad.result.userId = lastLoad.userId
           /\ lastLoad.result.archetype = "null"
           /\ lastLoad.result.sessions = <<>>
           /\ lastLoad.persisted = JSONstringify(lastLoad.result)
    /\ lastLoad.afterCreated =>
           /\ ~lastLoad.createdDefault
           /\ lastLoad.result = lastLoad.expected

\* C7 witness: a second call returned the default profile a first one created
C7_Witness ==
    /\ lastLoad.called /\ lastLoad.afterCreated
    /\ lastLoad.result = lastLoad.expected
    /\ lastLoad.result.archetype = "null"

\* C8: after an init run has failed, it has shown the error overlay once and
\* returned false, isInitialized is false, and nothing an earlier step produced
\* is kept: no current session, no user profile, no stored session identifier.
C8_AllOrNothingStartup ==
    \A p \in Procs :
        initResult[p] = "false" =>
            /\ errorOverlays[p] = 1
            /\ ~isInitialized
            /\ currentSession = JsNull
            /\ userProfile = NullProfile
            /\ localStorage.cognitive_session_id = 0

\* C9: a createSession call that returns, returns a session whose identifier
\* is not empty and names a session of the backend; an event or a completion
\* that reaches the session routes under the identifier the page holds is never
\* answered "not found", and is acknowledged while the session is active.
C9_SessionIdAccepted ==
    /\ (call.op = "createSession" /\ call.outcome.t = "return") =>
           /\ call.outcome.value.kind = "object"
           /\ call.outcome.value.sessionId # 0
           /\ SessionState(serverSessions, call.outcome.value.sessionId) # "unknown"
    /\ currentSession.kind = "object" =>
           SessionState(serverSessions, currentSession.sessionId) # "unknown"
    /\ (call.op \in {"trackEvent", "completeSession"} /\ call.resp \notin InfraFailures) =>
           /\ call.sessionId # 0
           /\ call.resp # NotFound
           /\ call.before = "active" => call.outcome = Return(Ack)

\* C9 witness: the session the page holds was completed and acknowledged
C9_Witness ==
    /\ call.op = "completeSession" /\ call.before = "active"
    /\ call.sessionId = currentSession.sessionId
    /\ call.outcome = Return(Ack)
    /\ SessionState(serverSessions, call.sessionId) = "completed"

\* C10: the relay calls handleConnection once for a socket, when it opens, and
\* handleDisconnect once, when it closes and not before; the sockets registered
\* and not removed are the open ones.
C10_RelayLifecycle ==
    /\ \A s \in Sockets :
           /\ connectCalls[s] = IF sockState[s] = "connecting" THEN 0 ELSE 1
           /\ disconnectCalls[s] = IF sockState[s] = "closed" THEN 1 ELSE 0
           /\ disconnectCalls[s] <= connectCalls[s]
    /\ {s \in Sockets : connectCalls[s] > disconnectCalls[s]}
           = {s \in Sockets : sockState[s] = "open"}

\* C10 witness: a socket that reported an error was closed by a transport
\* failure while another one is open
C10_Witness ==
    \E s, t \in Sockets :
        /\ sockState[s] = "closed" /\ closeReason[s] \in ErrorReasons
        /\ errorLogs[s] > 0
        /\ sockState[t] = "open"

\* C11: on the server every uncaught fault, an uncaught exception or an
\* unhandled promise rejection, is logged and then ends the process with a
\* non-zero exit code: no logged fault leaves the process running
C11_FaultsTerminate ==
    faultLog # <<>> => srvState = "exited" /\ exitCode > 0

\* C12: event submission is at-most-once and in send order: the requests on the
\* wire are the trackEvent calls, one request per call, in the order the calls
\* were made (so per session too), and a call that settled with null was
\* neither sent again nor left pending
C12_AtMostOnceInOrder ==
    /\ sent = trackCalls
    /\ \A id \in SessionIds :
           SelectSeq(sent, LAMBDA ev : ev[1] = id)
               = SelectSeq(trackCalls, LAMBDA ev : ev[1] = id)
    /\ \A ev \in dropped :
           /\ ev \notin inflight
           /\ Cardinality({i \in 1..Len(sent) : sent[i] = ev}) = 1

\* a send of a session was dropped, and a later call of the same session is on
\* the wire after it
C12_Witness ==
    \E i, j \in 1..Len(trackCalls) :
        /\ i < j
        /\ trackCalls[i] \in dropped
        /\ trackCalls[j][1] = trackCalls[i][1]
        /\ Len(sent) = MaxEvents

\* C13: every worker the cluster master forked starts the server: once it has
\* loaded backend/server.js, a CognitiveServer has been constructed in it and
\* start() has been called
C13_WorkerStartsServer ==
    \A w \in ClusterProcs \ {0} :
        procState[w] \notin {"none", "forked", "dead"}
            => w \in serverObjects /\ procState[w] \in {"started", "listening"}

\* C14: after SIGTERM or SIGINT the server process eventually exits; it exits
\* with code 0 only after the HTTP server has closed and then the database
\* connection has closed; every other exit has code 1, and the exits of
\* gracefulShutdown itself are the force timer and its catch block
C14_GracefulShutdown ==
    /\ [](srvState = "exited" /\ exitCode = 0
            => /\ shutdowns > 0
               /\ closeLog = <<"http", "db">>
               /\ httpState = "closed"
               /\ dbState = "closed")
    /\ [](srvState = "exited" /\ shutdowns > 0 /\ exitCode # 0
            => /\ exitCode = 1
               /\ exitCause \in {"force timer", "shutdown error",
                                 "uncaughtException", "db connection error"})
    /\ [](exitCause \in {"force timer", "shutdown error"} => exitCode = 1)
    /\ ((shutdowns > 0) ~> (srvState = "exited"))

\* a first close of the database was rejected, a second signal's callback
\* closed it, and the process exited with code 0
C14_Witness ==
    /\ srvState = "exited"
    /\ exitCode = 0
    /\ shutdowns = 2
    /\ closeLog = <<"http", "db">>
    /\ faultLog # <<>>

\* C15: after a successful database connection the handler registered for
\* 'open' eventually runs (and creates the two indexes) while the process
\* lives; a failed connection ends the process with exit code 1
C15_IndexesEventuallyCreated ==
    /\ [](dbState = "failed" => srvState = "exited" /\ exitCode = 1)
    /\ ((dbState = "connected") ~> (indexRuns > 0 \/ srvState = "exited"))

\* C16: an init whose health check was answered with status 200 and the body
\* of the server's health route passes the health step and starts the session
\* step
C16_HealthRouteAccepted ==
    \A p \in Procs :
        pc[p] \notin {"idle", "health"} /\ healthResp[p] = Response(200, HealthRouteBody)
            => /\ "health" \in stepsOk[p]
               /\ Len(steps[p]) >= 2
               /\ steps[p][2] = "session"

\* the init runs that are between their first await and their return
InitsInProgress == {p \in Procs : pc[p] \in {StepOrder[i] : i \in 1..Len(StepOrder)}}

\* C17: initialization is not re-entrant: never are two init runs in progress,
\* and a page whose initialization succeeded has created exactly one session
C17_InitNotReentrant ==
    /\ Cardinality(InitsInProgress) <= 1
    /\ isInitialized => Cardinality({t \in tracked : t[1] = "session_start"}) = 1

\* C18: a startPuzzle whose own init failed neither tracks puzzle_start nor
\* navigates to the puzzle page
C18_StartPuzzleNeedsInit ==
    \A p \in Procs \ {0} :
        initResult[p] = "false"
            => <<"puzzle_start", p>> \notin tracked /\ p \notin navigations

====
